---- MODULE Spec2Model ----
(***************************************************************************)
(* ovirt-vmconsole: the proxy-side and host-side forced-command shells.    *)
(*                                                                         *)
(* One behaviour is one run of one of the two programs (hop), from the     *)
(* entry of Main.main to the exit of the process, together with the two    *)
(* processes ProcessUtils.simpleDaemon forks (the intermediate child and   *)
(* the detached task that sleeps and unlinks the known_hosts file).        *)
(***************************************************************************)
EXTENDS Integers, Sequences, FiniteSets, TLC

VARIABLES
    hop,            \* which program runs: "proxy" or "host"
    pc,             \* position of the session process in main / doConnect
    args,           \* proxy: self._args (sys.argv); host: self._args
    userargs,       \* proxy: self._userargs (SSH_ORIGINAL_COMMAND)
    consoles,       \* proxy: self._consoles
    entry,          \* doConnect: the selected console entry
    stdinLines,     \* lines sys.stdin.readline() returned to selectConsole
    stdinEof,       \* readline() returned '' (end of input)
    menuWrites,     \* number of sys.stdout.write(menu) in selectConsole
    invalidMsgs,    \* number of 'Invalid selection' written to stderr
    exc,            \* the exception that ended main's try block
    stderrMsg,      \* what main wrote to stderr for the remote party
    logErrors,      \* number of self.logger.error calls in main
    status,         \* exit status of the session process ({} while it runs)
    validated,      \* result of self.validations()
    events,         \* side effects of the session process, in order
    known_hosts,    \* the mkstemp file: "none", "created", "written", "unlinked"
    childPc,        \* intermediate child forked by simpleDaemon
    childStatus,    \* its exit status
    waitStatus,     \* what os.waitpid gave the session process
    taskPc,         \* detached task (second fork) running delayedUnlink
    taskStatus,     \* its exit status
    timeout,        \* known_hosts_close_delay passed to delayedUnlink
    elapsed,        \* time the task has slept so far
    unlinks,        \* processes that called os.unlink(known_hosts)
    socket,         \* host: os.path.join(consoledir, console)
    discovery,      \* proxy: exit status and output of the discovery command
    hasPty,         \* termios.tcgetattr(stdin) worked: "unknown", "yes", "no"
    hasAccess,      \* host: os.access(socket, F_OK | R_OK | W_OK), likewise
    bufsize,        \* relay: socketproxy_bufsize
    idleTimeout,    \* relay: socketproxy_timeout (0: no timeout)
    rd,             \* relay: bytes read so far from each endpoint
    out,            \* relay: bytes delivered so far to each endpoint
    pending,        \* relay: the chunk read and not yet written in full
    idle,           \* relay: time on the bridge's idle clock
    quiet,          \* time since a byte was last read or written
    outcome,        \* relay: "" while it runs, then how run() ended
    endpoints,      \* relay: each endpoint "none", "open" or "closed"
    eof,            \* relay: the endpoints a read of no bytes came from
    tty             \* controlling terminal: "cooked", "raw", "restored"

vars == << hop, pc, args, userargs, consoles, entry, stdinLines, stdinEof,
           menuWrites, invalidMsgs, exc, stderrMsg, logErrors, status,
           validated, events, known_hosts, childPc, childStatus, waitStatus,
           taskPc, taskStatus, timeout, elapsed, unlinks, socket, discovery,
           hasPty, hasAccess, bufsize, idleTimeout, rd, out, pending, idle,
           quiet, outcome, endpoints, eof, tty >>

(***************************************************************************)
(* Bounds of the model.                                                    *)
(***************************************************************************)
MaxInput == 3       \* lines the input channel delivers before end-of-input
MaxDelay == 2       \* largest known_hosts_close_delay tried
MaxNameLen == 3     \* longest console name tried on the host hop
MaxStream == 3      \* bytes each endpoint of the relay has to send
MaxBuf == 2         \* largest socketproxy_bufsize tried
MaxIdle == 2        \* largest socketproxy_timeout tried, and the time the
                    \* relay is watched without a timeout

(***************************************************************************)
(* The relay's two endpoints: A the controlling terminal, B the console    *)
(* socket.  Each has MaxStream bytes to send, all different, so that a     *)
(* byte lost, repeated or out of place shows in what the other receives.   *)
(***************************************************************************)
Endpoints == { "A", "B" }
Other(X) == IF X = "A" THEN "B" ELSE "A"
Stream(X) == [k \in 1..MaxStream |-> IF X = "A" THEN k ELSE MaxStream + k]
NoPending == [to |-> "", data |-> << >>]
Min(a, b) == IF a <= b THEN a ELSE b

(***************************************************************************)
(* Console entries (validate.console_list: vmid, vm, host, console).       *)
(***************************************************************************)
NoEntry == [vmid |-> "", vm |-> "", host |-> "", console |-> ""]

EntryPool ==
    { [vmid |-> "a", vm |-> "x", host |-> "h1", console |-> "ca"],
      [vmid |-> "b", vm |-> "x", host |-> "h2", console |-> "cb"],
      [vmid |-> "c", vm |-> "y", host |-> "h1", console |-> "cc"] }

\* Ordered console lists, unique by vmid within one discovery response.
ConsoleLists ==
    { s \in UNION { [1..n -> EntryPool] : n \in 0..Cardinality(EntryPool) } :
        \A i, j \in DOMAIN s : i # j => s[i].vmid # s[j].vmid }

VmIds == { "", "a", "c", "z" }
VmNames == { "", "x", "y", "w" }

NoArgs == [command |-> "", vm_id |-> "", vm_name |-> "", format |-> "",
           console |-> << >>]


NoExc == [type |-> "", msg |-> ""]

UserVisibleRuntimeError(m) == [type |-> "UserVisibleRuntimeError", msg |-> m]
UserExit == [type |-> "UserExit", msg |-> ""]
KeyboardInterrupt == [type |-> "KeyboardInterrupt", msg |-> ""]
Exception(m) == [type |-> "Exception", msg |-> m]

(***************************************************************************)
(* Text: a line or a name is a sequence of one-character strings.          *)
(***************************************************************************)
Digits == { "0", "1", "2", "3", "4", "5", "6", "7", "8", "9" }

DigitVal(c) ==
    CASE c = "0" -> 0 [] c = "1" -> 1 [] c = "2" -> 2 [] c = "3" -> 3
      [] c = "4" -> 4 [] c = "5" -> 5 [] c = "6" -> 6 [] c = "7" -> 7
      [] c = "8" -> 8 [] c = "9" -> 9

Whitespace == { " ", "\t", "\n", "\r", "\f" }

\* str.rstrip(chars)
RECURSIVE rstrip(_, _)
rstrip(l, chars) ==
    IF l # << >> /\ l[Len(l)] \in chars
    THEN rstrip(SubSeq(l, 1, Len(l) - 1), chars)
    ELSE l

RECURSIVE lstrip(_, _)
lstrip(l, chars) ==
    IF l # << >> /\ l[1] \in chars THEN lstrip(Tail(l), chars) ELSE l

\* int(l) skips surrounding whitespace and takes an optional sign
IntDigits(l) ==
    LET t == lstrip(rstrip(l, Whitespace), Whitespace)
    IN  IF t # << >> /\ t[1] \in { "+", "-" } THEN Tail(t) ELSE t

\* int(l) does not raise ValueError: decimal digits, single underscores
\* allowed between digits
IntOk(l) ==
    LET b == IntDigits(l)
    IN  /\ b # << >>
        /\ \A k \in 1..Len(b) : b[k] \in Digits \cup { "_" }
        /\ b[1] \in Digits
        /\ b[Len(b)] \in Digits
        /\ \A k \in 1..(Len(b) - 1) : ~(b[k] = "_" /\ b[k + 1] = "_")

RECURSIVE DigitsValue(_)
DigitsValue(b) ==
    IF b = << >> THEN 0
    ELSE LET c == b[Len(b)]
             init == SubSeq(b, 1, Len(b) - 1)
         IN  IF c = "_" THEN DigitsValue(init)
             ELSE 10 * DigitsValue(init) + DigitVal(c)

\* the value of int(l) when IntOk(l)
int(l) ==
    LET t == lstrip(rstrip(l, Whitespace), Whitespace)
    IN  IF t[1] = "-" THEN 0 - DigitsValue(IntDigits(l))
        ELSE DigitsValue(IntDigits(l))

\* The lines the input channel may deliver, as readline() returns them.
StdinLines ==
    { << "0", "\n" >>, << "1", "\n" >>, << "2", "\n" >>, << "3", "\n" >>,
      << "-", "1", "\n" >>, << " ", "+", "1", "\r", "\n" >>,
      << "e", "x", "i", "t", "\n" >>, << "e", "x", "i", "t", " ", "\n" >>,
      << "\n" >> }

(***************************************************************************)
(* Paths (posixpath).                                                      *)
(***************************************************************************)
NameChars == { "a", ".", "/" }

ConsoleNames == UNION { [1..n -> NameChars] : n \in 0..MaxNameLen }

\* os.path.basename(p): what follows the last "/"
basename(p) ==
    LET slashes == { k \in 1..Len(p) : p[k] = "/" }
        i == IF slashes = {} THEN 0
             ELSE CHOOSE k \in slashes : \A m \in slashes : m <= k
    IN  SubSeq(p, i + 1, Len(p))

\* os.path.join(a, b)
join(a, b) ==
    IF b # << >> /\ b[1] = "/" THEN b
    ELSE IF a = << >> \/ a[Len(a)] = "/" THEN a \o b
    ELSE a \o << "/" >> \o b

\* self._config.get('host', 'consoledir')
consoledir == << "/", "r", "/", "c" >>

(***************************************************************************)
(* Variable groups.                                                        *)
(***************************************************************************)
argVars == << hop, args, userargs >>
outVars == << exc, stderrMsg, logErrors, status >>
menuVars == << stdinLines, stdinEof, menuWrites, invalidMsgs >>
daemonVars == << childPc, childStatus, taskPc, taskStatus, elapsed, unlinks >>
envVars == << discovery, hasPty, hasAccess >>
relayCfg == << bufsize, idleTimeout >>
relayIo == << rd, out, pending, idle, quiet >>
relayEnd == << outcome, endpoints, tty >>
relayVars == << relayCfg, relayIo, relayEnd, eof >>

Init ==
    /\ hop \in { "proxy", "host" }
    /\ pc = "start"
    /\ args = NoArgs
    /\ userargs = NoArgs
    /\ consoles = [valid |-> FALSE, consoles |-> << >>]
    /\ entry = NoEntry
    /\ stdinLines = << >>
    /\ stdinEof = FALSE
    /\ menuWrites = 0
    /\ invalidMsgs = 0
    /\ exc = NoExc
    /\ stderrMsg = ""
    /\ logErrors = 0
    /\ status = {}
    /\ validated = "no"
    /\ events = << >>
    /\ known_hosts = "none"
    /\ childPc = "none"
    /\ childStatus = {}
    /\ waitStatus = {}
    /\ taskPc = "none"
    /\ taskStatus = {}
    /\ timeout = 0
    /\ elapsed = 0
    /\ unlinks = {}
    /\ socket = << >>
    /\ discovery = [rc |-> 0, stdout |-> "none"]
    /\ hasPty = "unknown"
    /\ hasAccess = "unknown"
    /\ bufsize = 1
    /\ idleTimeout = 0
    /\ rd = [X \in Endpoints |-> 0]
    /\ out = [X \in Endpoints |-> << >>]
    /\ pending = NoPending
    /\ idle = 0
    /\ quiet = 0
    /\ outcome = ""
    /\ endpoints = [X \in Endpoints |-> "none"]
    /\ eof = {}
    /\ tty = "cooked"

(***************************************************************************)
(* Main.main: how the try block ends.                                      *)
(***************************************************************************)
\* proxyExcept with the exception's own text written for every tier
proxyExcept_Leak(e) ==
    /\ exc' = e
    /\ pc' = "exit"
    /\ status' = { 1 }
    /\ IF e.type \in { "UserExit", "KeyboardInterrupt" }
       THEN stderrMsg' = "" /\ logErrors' = logErrors
       ELSE stderrMsg' = e.msg /\ logErrors' = logErrors + 1

\* proxy: except (UserExit, KeyboardInterrupt) / UserVisibleRuntimeError /
\* Exception; ret keeps the value 1 it was given at entry
proxyExcept(e) ==
    /\ exc' = e
    /\ pc' = "exit"
    /\ status' = { 1 }
    /\ IF e.type \in { "UserExit", "KeyboardInterrupt" }
       THEN stderrMsg' = "" /\ logErrors' = logErrors
       ELSE IF e.type = "UserVisibleRuntimeError"
       THEN stderrMsg' = e.msg /\ logErrors' = logErrors + 1
       ELSE stderrMsg' = "Internal error" /\ logErrors' = logErrors + 1

\* host: except UserVisibleRuntimeError / Exception; a KeyboardInterrupt is
\* no Exception and leaves main uncaught (traceback, status 1 or SIGINT)
hostExcept(e) ==
    /\ exc' = e
    /\ pc' = "exit"
    /\ IF e.type = "KeyboardInterrupt"
       THEN /\ status' \in { { 1 }, { 130 } }
            /\ stderrMsg' = "Traceback"
            /\ logErrors' = logErrors
       ELSE IF e.type = "UserVisibleRuntimeError"
       THEN /\ status' = { 1 }
            /\ stderrMsg' = e.msg
            /\ logErrors' = logErrors + 1
       ELSE /\ status' = { 1 }
            /\ stderrMsg' = "Internal error"
            /\ logErrors' = logErrors + 1

raise(e) == IF hop = "proxy" THEN proxyExcept(e) ELSE hostExcept(e)

\* ret = 0; return ret
return0 ==
    /\ pc' = "exit"
    /\ status' = { 0 }
    /\ UNCHANGED << exc, stderrMsg, logErrors >>

(***************************************************************************)
(* Proxy shell.                                                            *)
(***************************************************************************)
ProxyArgs == { [NoArgs EXCEPT !.command = c] : c \in { "accept", "help" } }

ProxyUserArgs ==
    { [NoArgs EXCEPT !.command = "info"] }
    \cup { [NoArgs EXCEPT !.command = "list", !.format = f] :
             f \in { "plain", "json" } }
    \cup { [NoArgs EXCEPT !.command = "connect", !.vm_id = i, !.vm_name = n] :
             i \in VmIds, n \in VmNames }

\* self._args = self.parse_args(sys.argv[1:]); self._userargs = ...
proxyParseArgs ==
    /\ hop = "proxy"
    /\ pc = "start"
    /\ args' \in ProxyArgs
    /\ userargs' \in ProxyUserArgs
    /\ pc' = "validations"
    /\ UNCHANGED << hop, consoles, entry, menuVars, outVars, validated, events,
                    known_hosts, daemonVars, waitStatus, timeout, socket >>
    /\ UNCHANGED envVars
    /\ UNCHANGED relayVars

\* validations that reports the mismatch without raising
validations_NoRaise ==
    /\ pc = "validations"
    /\ events' = Append(events, "validate")
    /\ validated' \in { "ok", "failed" }
    /\ pc' = "args_func"
    /\ UNCHANGED << argVars, outVars, consoles, entry, menuVars, known_hosts,
                    daemonVars, waitStatus, timeout, socket >>
    /\ UNCHANGED envVars
    /\ UNCHANGED relayVars

\* self.validations(), either program
validations ==
    /\ pc = "validations"
    /\ events' = Append(events, "validate")
    /\ \/ /\ validated' = "ok"
          /\ pc' = "args_func"
          /\ UNCHANGED outVars
       \/ /\ validated' = "failed"
          /\ raise(Exception("Must run under user"))
    /\ UNCHANGED << argVars, consoles, entry, menuVars, known_hosts,
                    daemonVars, waitStatus, timeout, socket >>
    /\ UNCHANGED envVars
    /\ UNCHANGED relayVars

\* What the discovery command may give: exit status, output, parsed list.
DiscoveryResults ==
    { [rc |-> 1, stdout |-> "", consoles |-> << >>] }
    \cup { [rc |-> 0, stdout |-> k, consoles |-> << >>] :
             k \in { "", "notjson", "falsy", "badshape" } }
    \cup { [rc |-> 0, stdout |-> "json", consoles |-> cs] : cs \in ConsoleLists }

\* executeJson without the test of the decoded value (if not ret)
executeJson_NoEmptyCheck(r) ==
    IF r.rc # 0 THEN Exception("Console list execution failed")
    ELSE IF r.stdout \in { "", "notjson" } THEN Exception("JSONDecodeError")
    ELSE NoExc

\* ProcessUtils.executeJson: the exception it raises, NoExc when it returns
executeJson(r) ==
    IF r.rc # 0 THEN Exception("Console list execution failed")
    ELSE IF r.stdout \in { "", "notjson" } THEN Exception("JSONDecodeError")
    ELSE IF r.stdout = "falsy" THEN Exception("Console list malformed output")
    ELSE NoExc

\* validate.console_list: the exception it raises, NoExc when it returns
console_list(r) ==
    IF r.stdout = "badshape" THEN Exception("Invalid console list") ELSE NoExc

\* self._args.func() for 'accept'
doAccept ==
    /\ hop = "proxy"
    /\ pc = "args_func"
    /\ args.command = "accept"
    /\ events' = Append(events, "discover")
    /\ \E r \in DiscoveryResults :
         /\ discovery' = [rc |-> r.rc, stdout |-> r.stdout]
         /\ IF executeJson(r) # NoExc
            THEN raise(executeJson(r)) /\ UNCHANGED consoles
            ELSE IF console_list(r) # NoExc
            THEN raise(console_list(r)) /\ UNCHANGED consoles
            ELSE /\ consoles' = [valid |-> TRUE, consoles |-> r.consoles]
                 /\ pc' = "userargs_func"
                 /\ UNCHANGED outVars
    /\ UNCHANGED << argVars, entry, menuVars, validated, known_hosts,
                    daemonVars, waitStatus, timeout, socket >>
    /\ UNCHANGED << hasPty, hasAccess >>
    /\ UNCHANGED relayVars

\* self._args.func() for 'help': parser.print_help()
proxyHelp ==
    /\ hop = "proxy"
    /\ pc = "args_func"
    /\ args.command = "help"
    /\ pc' = "userargs_func"
    /\ UNCHANGED << argVars, consoles, entry, menuVars, outVars, validated,
                    events, known_hosts, daemonVars, waitStatus, timeout,
                    socket >>
    /\ UNCHANGED envVars
    /\ UNCHANGED relayVars

\* doInfo, either program: reads the two key files and writes them
doInfo ==
    /\ \/ hop = "proxy" /\ pc = "userargs_func" /\ userargs.command = "info"
       \/ hop = "host" /\ pc = "args_func" /\ args.command = "info"
    /\ \/ return0
       \/ raise(Exception("IOError"))
    /\ UNCHANGED << argVars, consoles, entry, menuVars, validated, events,
                    known_hosts, daemonVars, waitStatus, timeout, socket >>
    /\ UNCHANGED envVars
    /\ UNCHANGED relayVars

\* doList: 'plain' indexes self._consoles['consoles'], 'json' dumps it
doList ==
    /\ hop = "proxy"
    /\ pc = "userargs_func"
    /\ userargs.command = "list"
    /\ IF userargs.format = "plain" /\ ~consoles.valid
       THEN raise(Exception("TypeError"))
       ELSE return0
    /\ UNCHANGED << argVars, consoles, entry, menuVars, validated, events,
                    known_hosts, daemonVars, waitStatus, timeout, socket >>
    /\ UNCHANGED envVars
    /\ UNCHANGED relayVars

(***************************************************************************)
(* Proxy doConnect: selection.                                             *)
(***************************************************************************)
\* for e in consoles: if key == e[field]: entry = e; break
FirstIndex(S) == CHOOSE k \in S : \A m \in S : k <= m

\* doConnectSelect with the name consulted before the id
doConnectSelect_NameFirst(ua, cs) ==
    LET byId == { k \in 1..Len(cs) : ua.vm_id = cs[k].vmid }
        byName == { k \in 1..Len(cs) : ua.vm_name = cs[k].vm }
        fail(m) == [exc |-> UserVisibleRuntimeError(m), entry |-> NoEntry,
                    menu |-> FALSE]
        found(e) == [exc |-> NoExc, entry |-> e, menu |-> FALSE]
    IN  IF ua.vm_name # ""
        THEN IF byName = {} THEN fail("VM with name is unavailable")
             ELSE found(cs[FirstIndex(byName)])
        ELSE IF ua.vm_id # ""
        THEN IF byId = {} THEN fail("VM with id is unavailable")
             ELSE found(cs[FirstIndex(byId)])
        ELSE IF Len(cs) = 0 THEN fail("No available running VMs")
        ELSE IF Len(cs) = 1 THEN found(cs[1])
        ELSE [exc |-> NoExc, entry |-> NoEntry, menu |-> TRUE]

\* doConnectSelect with the name consulted when the id matches nothing
doConnectSelect_Fallback(ua, cs) ==
    LET byId == { k \in 1..Len(cs) : ua.vm_id = cs[k].vmid }
        byName == { k \in 1..Len(cs) : ua.vm_name = cs[k].vm }
        fail(m) == [exc |-> UserVisibleRuntimeError(m), entry |-> NoEntry,
                    menu |-> FALSE]
        found(e) == [exc |-> NoExc, entry |-> e, menu |-> FALSE]
    IN  IF ua.vm_id # "" /\ (byId # {} \/ ua.vm_name = "")
        THEN IF byId = {} THEN fail("VM with id is unavailable")
             ELSE found(cs[FirstIndex(byId)])
        ELSE IF ua.vm_name # ""
        THEN IF byName = {} THEN fail("VM with name is unavailable")
             ELSE found(cs[FirstIndex(byName)])
        ELSE IF Len(cs) = 0 THEN fail("No available running VMs")
        ELSE IF Len(cs) = 1 THEN found(cs[1])
        ELSE [exc |-> NoExc, entry |-> NoEntry, menu |-> TRUE]

\* doConnectSelect without the branch for a list of one entry
doConnectSelect_NoSingle(ua, cs) ==
    LET byId == { k \in 1..Len(cs) : ua.vm_id = cs[k].vmid }
        byName == { k \in 1..Len(cs) : ua.vm_name = cs[k].vm }
        fail(m) == [exc |-> UserVisibleRuntimeError(m), entry |-> NoEntry,
                    menu |-> FALSE]
        found(e) == [exc |-> NoExc, entry |-> e, menu |-> FALSE]
    IN  IF ua.vm_id # ""
        THEN IF byId = {} THEN fail("VM with id is unavailable")
             ELSE found(cs[FirstIndex(byId)])
        ELSE IF ua.vm_name # ""
        THEN IF byName = {} THEN fail("VM with name is unavailable")
             ELSE found(cs[FirstIndex(byName)])
        ELSE IF Len(cs) = 0 THEN fail("No available running VMs")
        ELSE [exc |-> NoExc, entry |-> NoEntry, menu |-> TRUE]

\* doConnect, the if/elif chain after the pty check.  The result names the
\* exception raised (NoExc: none), the entry chosen and whether
\* utils.selectConsole is called.
doConnectSelect(ua, cs) ==
    LET byId == { k \in 1..Len(cs) : ua.vm_id = cs[k].vmid }
        byName == { k \in 1..Len(cs) : ua.vm_name = cs[k].vm }
        fail(m) == [exc |-> UserVisibleRuntimeError(m), entry |-> NoEntry,
                    menu |-> FALSE]
        found(e) == [exc |-> NoExc, entry |-> e, menu |-> FALSE]
    IN  IF ua.vm_id # ""
        THEN IF byId = {} THEN fail("VM with id is unavailable")
             ELSE found(cs[FirstIndex(byId)])
        ELSE IF ua.vm_name # ""
        THEN IF byName = {} THEN fail("VM with name is unavailable")
             ELSE found(cs[FirstIndex(byName)])
        ELSE IF Len(cs) = 0 THEN fail("No available running VMs")
        ELSE IF Len(cs) = 1 THEN found(cs[1])
        ELSE [exc |-> NoExc, entry |-> NoEntry, menu |-> TRUE]

\* doConnect up to the choice of the entry or the call of selectConsole
doConnect ==
    /\ hop = "proxy"
    /\ pc = "userargs_func"
    /\ userargs.command = "connect"
    /\ \E pty \in BOOLEAN :
         /\ hasPty' = IF pty THEN "yes" ELSE "no"
         /\ IF ~pty
            THEN /\ raise(UserVisibleRuntimeError("No pty support"))
                 /\ UNCHANGED << entry, events >>
            ELSE IF ~consoles.valid
            THEN /\ raise(Exception("TypeError"))
                 /\ UNCHANGED << entry, events >>
            ELSE LET r == doConnectSelect(userargs, consoles.consoles)
                 IN  IF r.exc # NoExc
                     THEN raise(r.exc) /\ UNCHANGED << entry, events >>
                     ELSE IF r.menu
                     THEN /\ pc' = "selectConsole"
                          /\ UNCHANGED << entry, events, outVars >>
                     ELSE /\ entry' = r.entry
                          /\ events' = Append(events, "select")
                          /\ pc' = "provision"
                          /\ UNCHANGED outVars
    /\ UNCHANGED << argVars, consoles, menuVars, validated, known_hosts,
                    daemonVars, waitStatus, timeout, socket >>
    /\ UNCHANGED << discovery, hasAccess >>
    /\ UNCHANGED relayVars

\* InvalidIndex without the test for a negative number
InvalidIndex_NoNegative(i, n) == i >= n

\* selectConsole: if i < 0 or i >= len(consoles)
InvalidIndex(i, n) == i < 0 \/ i >= n

\* consoles[i]: a Python list counts a negative index from the end
index(cs, i) == IF i < 0 THEN cs[Len(cs) + i + 1] ELSE cs[i + 1]

\* selectConsole: what one pass of the loop does with the line l that
\* readline() returned (<< >> at end of input)
selectConsoleLine(l, cs) ==
    IF l = << >> THEN [exc |-> UserVisibleRuntimeError("EOF"), invalid |-> FALSE,
                       entry |-> NoEntry]
    ELSE LET t == rstrip(l, { "\r", "\n" })
         IN  IF t = << "e", "x", "i", "t" >>
             THEN [exc |-> UserExit, invalid |-> FALSE, entry |-> NoEntry]
             ELSE IF ~IntOk(t)
             THEN [exc |-> NoExc, invalid |-> TRUE, entry |-> NoEntry]
             ELSE IF InvalidIndex(int(t), Len(cs))
             THEN [exc |-> NoExc, invalid |-> TRUE, entry |-> NoEntry]
             ELSE [exc |-> NoExc, invalid |-> FALSE, entry |-> index(cs, int(t))]

\* one pass of the while loop of selectConsole: write the menu, read a line
selectConsole ==
    /\ pc = "selectConsole"
    /\ menuWrites' = menuWrites + 1
    /\ \E l \in StdinLines \cup { << >> } :
         /\ l # << >> => Len(stdinLines) < MaxInput
         /\ IF l = << >>
            THEN stdinEof' = TRUE /\ UNCHANGED stdinLines
            ELSE stdinLines' = Append(stdinLines, l) /\ UNCHANGED stdinEof
         /\ LET r == selectConsoleLine(l, consoles.consoles)
            IN  IF r.exc # NoExc
                THEN raise(r.exc) /\ UNCHANGED << entry, events, invalidMsgs >>
                ELSE IF r.invalid
                THEN /\ invalidMsgs' = invalidMsgs + 1
                     /\ UNCHANGED << pc, entry, events, outVars >>
                ELSE /\ entry' = r.entry
                     /\ events' = Append(events, "select")
                     /\ pc' = "provision"
                     /\ UNCHANGED << invalidMsgs, outVars >>
    /\ UNCHANGED << argVars, consoles, validated, known_hosts, daemonVars,
                    waitStatus, timeout, socket >>
    /\ UNCHANGED envVars
    /\ UNCHANGED relayVars

(***************************************************************************)
(* Proxy doConnect: known_hosts, the cleanup daemon, the next hop.         *)
(***************************************************************************)
\* read ca.pub, tempfile.mkstemp(), write the @cert-authority line
doConnectKnownHosts ==
    /\ pc = "provision"
    /\ \/ /\ raise(Exception("IOError ca.pub"))
          /\ UNCHANGED << known_hosts, events >>
       \/ /\ raise(Exception("OSError mkstemp"))
          /\ UNCHANGED << known_hosts, events >>
       \/ /\ known_hosts' = "created"
          /\ events' = Append(events, "mkstemp")
          /\ raise(Exception("IOError write"))
       \/ /\ known_hosts' = "written"
          /\ events' = events \o << "mkstemp", "write" >>
          /\ pc' = "simpleDaemon"
          /\ UNCHANGED outVars
    /\ UNCHANGED << argVars, consoles, entry, menuVars, validated, daemonVars,
                    waitStatus, timeout, socket >>
    /\ UNCHANGED envVars
    /\ UNCHANGED relayVars

\* simpleDaemon up to pid = os.fork(), called with
\* timeout=getint('proxy', 'known_hosts_close_delay')
simpleDaemonFork ==
    /\ pc = "simpleDaemon"
    /\ \E d \in 0..MaxDelay : timeout' = d
    /\ \/ /\ childPc' = "forked"
          /\ events' = Append(events, "fork")
          /\ pc' = "waitpid"
          /\ UNCHANGED outVars
       \/ /\ raise(Exception("OSError fork"))
          /\ UNCHANGED << childPc, events >>
    /\ UNCHANGED << argVars, consoles, entry, menuVars, validated, known_hosts,
                    childStatus, taskPc, taskStatus, elapsed, unlinks,
                    waitStatus, socket >>
    /\ UNCHANGED envVars
    /\ UNCHANGED relayVars

\* the intermediate child: detach, second fork, os._exit(0); any exception
\* on the way ends in finally: os._exit(1); it may also die of a signal
simpleDaemonChild ==
    /\ childPc = "forked"
    /\ childPc' = "exited"
    /\ \/ /\ childStatus' = { [exited |-> TRUE, code |-> 0] }
          /\ taskPc' = "sleep"
       \/ /\ childStatus' = { [exited |-> TRUE, code |-> 1] }
          /\ UNCHANGED taskPc
       \/ /\ childStatus' = { [exited |-> FALSE, code |-> 9] }
          /\ UNCHANGED taskPc
    /\ UNCHANGED << argVars, pc, consoles, entry, menuVars, outVars, validated,
                    events, known_hosts, taskStatus, elapsed, unlinks,
                    waitStatus, timeout, socket >>
    /\ UNCHANGED envVars
    /\ UNCHANGED relayVars

WIFEXITED(s) == s.exited
WEXITSTATUS(s) == s.code

\* the status check left out
NotExitedProperly_Never(s) == FALSE

\* if not os.WIFEXITED(status) or os.WEXITSTATUS(status) != 0
NotExitedProperly(s) == ~WIFEXITED(s) \/ WEXITSTATUS(s) # 0

\* simpleDaemonWait taking the status of whichever forked process ended,
\* the detached task included
simpleDaemonWait_AnyProcess ==
    /\ pc = "waitpid"
    /\ childPc = "exited"
    /\ \E s \in childStatus \cup { [exited |-> TRUE, code |-> c] : c \in taskStatus } :
         /\ waitStatus' = { s }
         /\ IF s.exited => s.code # 0
            THEN raise(Exception("Daemon not exited properly"))
            ELSE pc' = "execv" /\ UNCHANGED outVars
    /\ UNCHANGED << argVars, consoles, entry, menuVars, validated, events,
                    known_hosts, daemonVars, timeout, socket >>
    /\ UNCHANGED envVars
    /\ UNCHANGED relayVars

\* simpleDaemonWait returning only once the detached task has ended too
simpleDaemonWait_Join ==
    /\ pc = "waitpid"
    /\ childPc = "exited"
    /\ taskPc \in { "none", "exited" }
    /\ waitStatus' = childStatus
    /\ \E s \in childStatus :
         IF NotExitedProperly(s)
         THEN raise(Exception("Daemon not exited properly"))
         ELSE pc' = "execv" /\ UNCHANGED outVars
    /\ UNCHANGED << argVars, consoles, entry, menuVars, validated, events,
                    known_hosts, daemonVars, timeout, socket >>
    /\ UNCHANGED envVars
    /\ UNCHANGED relayVars

\* pid, status = os.waitpid(pid, 0) and the check of the status
simpleDaemonWait ==
    /\ pc = "waitpid"
    /\ childPc = "exited"
    /\ waitStatus' = childStatus
    /\ \E s \in childStatus :
         IF NotExitedProperly(s)
         THEN raise(Exception("Daemon not exited properly"))
         ELSE pc' = "execv" /\ UNCHANGED outVars
    /\ UNCHANGED << argVars, consoles, entry, menuVars, validated, events,
                    known_hosts, daemonVars, timeout, socket >>
    /\ UNCHANGED envVars
    /\ UNCHANGED relayVars

\* os.execv(shell, [shell, '-c', cmd]): replaces the process or raises
execv ==
    /\ pc = "execv"
    /\ \/ /\ pc' = "execed"
          /\ events' = Append(events, "exec")
          /\ UNCHANGED outVars
       \/ /\ raise(Exception("OSError execv"))
          /\ UNCHANGED events
    /\ UNCHANGED << argVars, consoles, entry, menuVars, validated, known_hosts,
                    daemonVars, waitStatus, timeout, socket >>
    /\ UNCHANGED envVars
    /\ UNCHANGED relayVars

\* delayedUnlink: time.sleep(timeout), one unit of it
taskSleep ==
    /\ taskPc = "sleep"
    /\ elapsed < timeout
    /\ elapsed' = elapsed + 1
    /\ UNCHANGED << argVars, pc, consoles, entry, menuVars, outVars, validated,
                    events, known_hosts, childPc, childStatus, taskPc,
                    taskStatus, unlinks, waitStatus, timeout, socket >>
    /\ UNCHANGED envVars
    /\ UNCHANGED relayVars

\* time.sleep(timeout) has returned
SleepOver == elapsed >= timeout

\* delayedUnlink: os.unlink(name), which may raise (printed, not passed on);
\* then finally: os._exit(1) in either case
delayedUnlink ==
    /\ taskPc = "sleep"
    /\ SleepOver
    /\ unlinks' = unlinks \cup { "task" }
    /\ \/ known_hosts \in { "created", "written" } /\ known_hosts' = "unlinked"
       \/ UNCHANGED known_hosts
    /\ taskPc' = "exited"
    /\ taskStatus' = { 1 }
    /\ UNCHANGED << argVars, pc, consoles, entry, menuVars, outVars, validated,
                    events, childPc, childStatus, elapsed, waitStatus, timeout,
                    socket >>
    /\ UNCHANGED envVars
    /\ UNCHANGED relayVars

(***************************************************************************)
(* Host shell.                                                             *)
(***************************************************************************)
HostArgs ==
    { [NoArgs EXCEPT !.command = "info"] }
    \cup { [NoArgs EXCEPT !.command = "connect", !.console = c] :
             c \in ConsoleNames }

\* self._args = self.parse_args(shlex.split(SSH_ORIGINAL_COMMAND))
hostParseArgs ==
    /\ hop = "host"
    /\ pc = "start"
    /\ args' \in HostArgs
    /\ pc' = "validations"
    /\ UNCHANGED << hop, userargs, consoles, entry, menuVars, outVars,
                    validated, events, known_hosts, daemonVars, waitStatus,
                    timeout, socket >>
    /\ UNCHANGED envVars
    /\ UNCHANGED relayVars

\* the name check with only an absolute path refused
ValidConsoleName_LeadingOnly(c) == c = << >> \/ c[1] # "/"

\* if os.path.basename(self._args.console) != self._args.console: raise
ValidConsoleName(c) == basename(c) = c

\* host doConnect with the result of os.access ignored
hostDoConnect_NoAccess ==
    /\ hop = "host"
    /\ pc = "args_func"
    /\ args.command = "connect"
    /\ \E pty, access \in BOOLEAN :
         /\ hasPty' = IF pty THEN "yes" ELSE "no"
         /\ IF ~pty
            THEN /\ raise(UserVisibleRuntimeError("No pty support"))
                 /\ UNCHANGED << socket, events, hasAccess >>
            ELSE IF ~ValidConsoleName(args.console)
            THEN /\ raise(UserVisibleRuntimeError("Invalid console name"))
                 /\ UNCHANGED << socket, events, hasAccess >>
            ELSE /\ socket' = join(consoledir, args.console)
                 /\ hasAccess' = IF access THEN "yes" ELSE "no"
                 /\ pc' = "relay"
                 /\ events' = Append(events, "access")
                 /\ UNCHANGED outVars
    /\ UNCHANGED << argVars, consoles, entry, menuVars, validated, known_hosts,
                    daemonVars, waitStatus, timeout, discovery >>
    /\ UNCHANGED relayVars

\* host doConnect up to the with statement: pty check, console name check,
\* socket path, os.access(socket, F_OK | R_OK | W_OK)
hostDoConnect ==
    /\ hop = "host"
    /\ pc = "args_func"
    /\ args.command = "connect"
    /\ \E pty, access \in BOOLEAN :
         /\ hasPty' = IF pty THEN "yes" ELSE "no"
         /\ IF ~pty
            THEN /\ raise(UserVisibleRuntimeError("No pty support"))
                 /\ UNCHANGED << socket, events, hasAccess >>
            ELSE IF ~ValidConsoleName(args.console)
            THEN /\ raise(UserVisibleRuntimeError("Invalid console name"))
                 /\ UNCHANGED << socket, events, hasAccess >>
            ELSE /\ socket' = join(consoledir, args.console)
                 /\ hasAccess' = IF access THEN "yes" ELSE "no"
                 /\ IF ~access
                    THEN /\ raise(UserVisibleRuntimeError(
                                     "Console is not available"))
                         /\ UNCHANGED events
                    ELSE /\ pc' = "relay"
                         /\ events' = Append(events, "access")
                         /\ UNCHANGED outVars
    /\ UNCHANGED << argVars, consoles, entry, menuVars, validated, known_hosts,
                    daemonVars, waitStatus, timeout, discovery >>
    /\ UNCHANGED relayVars

\* with socketproxy.Proxy(socket=socket, timeout=..., bufsize=..., ...):
\* the configuration is read, the socket is connected and the terminal is
\* made raw, or the constructor raises
hostRelay ==
    /\ hop = "host"
    /\ pc = "relay"
    /\ events' = Append(events, "attach")
    /\ bufsize' \in 1..MaxBuf
    /\ idleTimeout' \in 0..MaxIdle
    /\ \/ /\ pc' = "run"
          /\ endpoints' = [X \in Endpoints |-> "open"]
          /\ tty' = "raw"
          /\ UNCHANGED outVars
       \/ /\ raise(Exception("socket error"))
          /\ UNCHANGED << endpoints, tty >>
    /\ UNCHANGED << argVars, consoles, entry, menuVars, validated, known_hosts,
                    daemonVars, waitStatus, timeout, socket >>
    /\ UNCHANGED << envVars, relayIo, outcome, eof >>

\* relayExit with the terminal left in the mode of the session
relayExit_NoRestore(o) ==
    /\ outcome' = o
    /\ endpoints' = [X \in Endpoints |-> "closed"]
    /\ UNCHANGED tty

\* Proxy.__exit__ after run() ended as o: both endpoints closed, the
\* terminal mode restored
relayExit(o) ==
    /\ outcome' = o
    /\ endpoints' = [X \in Endpoints |-> "closed"]
    /\ tty' = "restored"

\* what the relay leaves alone
relayFrame ==
    UNCHANGED << argVars, consoles, entry, menuVars, validated, events,
                 known_hosts, daemonVars, waitStatus, timeout, socket,
                 envVars, relayCfg >>

\* the readiness wait lasts one more unit of time with nothing to read
relayTick ==
    /\ pc = "run"
    /\ pending = NoPending
    /\ idle < (IF idleTimeout = 0 THEN MaxIdle ELSE idleTimeout)
    /\ idle' = idle + 1
    /\ quiet' = IF quiet < MaxIdle THEN quiet + 1 ELSE quiet
    /\ UNCHANGED << pc, outVars, rd, out, pending, relayEnd >>
    /\ relayFrame
    /\ UNCHANGED eof

\* the readiness wait ends with nothing to read after idleTimeout
relayTimeout ==
    /\ pc = "run"
    /\ pending = NoPending
    /\ idleTimeout > 0
    /\ idle >= idleTimeout
    /\ relayExit("IdleTimeout")
    /\ return0
    /\ UNCHANGED relayIo
    /\ relayFrame
    /\ UNCHANGED eof

\* relayRead going on after the end of one stream until both have ended
relayRead_WaitBoth ==
    /\ pc = "run"
    /\ pending = NoPending
    /\ idleTimeout = 0 \/ idle < idleTimeout
    /\ \E X \in Endpoints \ eof :
         \/ /\ eof' = eof \cup { X }
            /\ IF eof' = Endpoints
               THEN relayExit("ClosedByPeer" \o X) /\ return0
               ELSE UNCHANGED << pc, outVars, relayEnd >>
            /\ UNCHANGED relayIo
         \/ \E k \in 1..Min(bufsize, MaxStream - rd[X]) :
              /\ rd' = [rd EXCEPT ![X] = @ + k]
              /\ pending' = [to |-> Other(X),
                             data |-> SubSeq(Stream(X), rd[X] + 1, rd[X] + k)]
              /\ idle' = 0
              /\ quiet' = 0
              /\ UNCHANGED << pc, outVars, out, relayEnd, eof >>
         \/ /\ relayExit("Error")
            /\ raise(Exception("socket error"))
            /\ UNCHANGED << relayIo, eof >>
    /\ relayFrame

\* relayRead with the idle clock left as it is
relayRead_NoReset ==
    /\ pc = "run"
    /\ pending = NoPending
    /\ idleTimeout = 0 \/ idle < idleTimeout
    /\ \E X \in Endpoints :
         \/ /\ eof' = eof \cup { X }
            /\ relayExit("ClosedByPeer" \o X)
            /\ return0
            /\ UNCHANGED relayIo
         \/ \E k \in 1..Min(bufsize, MaxStream - rd[X]) :
              /\ rd' = [rd EXCEPT ![X] = @ + k]
              /\ pending' = [to |-> Other(X),
                             data |-> SubSeq(Stream(X), rd[X] + 1, rd[X] + k)]
              /\ quiet' = 0
              /\ UNCHANGED << pc, outVars, out, idle, relayEnd, eof >>
         \/ /\ relayExit("Error")
            /\ raise(Exception("socket error"))
            /\ UNCHANGED << relayIo, eof >>
    /\ relayFrame

\* endpoint X is readable: a read of no bytes is its end of stream and ends
\* the session; a read of 1..bufsize bytes is held to be written to the
\* other endpoint and restarts the idle clock; or the read fails
relayRead ==
    /\ pc = "run"
    /\ pending = NoPending
    /\ idleTimeout = 0 \/ idle < idleTimeout
    /\ \E X \in Endpoints :
         \/ /\ eof' = eof \cup { X }
            /\ relayExit("ClosedByPeer" \o X)
            /\ return0
            /\ UNCHANGED relayIo
         \/ \E k \in 1..Min(bufsize, MaxStream - rd[X]) :
              /\ rd' = [rd EXCEPT ![X] = @ + k]
              /\ pending' = [to |-> Other(X),
                             data |-> SubSeq(Stream(X), rd[X] + 1, rd[X] + k)]
              /\ idle' = 0
              /\ quiet' = 0
              /\ UNCHANGED << pc, outVars, out, relayEnd, eof >>
         \/ /\ relayExit("Error")
            /\ raise(Exception("socket error"))
            /\ UNCHANGED << relayIo, eof >>
    /\ relayFrame

\* relayWrite with the rest of a short write given up
relayWrite_NoRetry ==
    /\ pc = "run"
    /\ pending # NoPending
    /\ \/ \E w \in 1..Len(pending.data) :
            /\ out' = [out EXCEPT ![pending.to] =
                           @ \o SubSeq(pending.data, 1, w)]
            /\ pending' = NoPending
            /\ idle' = 0
            /\ quiet' = 0
            /\ UNCHANGED << pc, outVars, rd, relayEnd >>
       \/ /\ relayExit("Error")
          /\ raise(Exception("socket error"))
          /\ UNCHANGED relayIo
    /\ relayFrame
    /\ UNCHANGED eof

\* one write of the held chunk to the opposite endpoint: it takes the first
\* w bytes (a short write when w is less than all), the rest stays held
\* for the next write and nothing is read meanwhile; or the write fails
relayWrite ==
    /\ pc = "run"
    /\ pending # NoPending
    /\ \/ \E w \in 1..Len(pending.data) :
            /\ out' = [out EXCEPT ![pending.to] =
                           @ \o SubSeq(pending.data, 1, w)]
            /\ pending' = IF w = Len(pending.data) THEN NoPending
                          ELSE [pending EXCEPT !.data =
                                    SubSeq(@, w + 1, Len(@))]
            /\ idle' = 0
            /\ quiet' = 0
            /\ UNCHANGED << pc, outVars, rd, relayEnd >>
       \/ /\ relayExit("Error")
          /\ raise(Exception("socket error"))
          /\ UNCHANGED relayIo
    /\ relayFrame
    /\ UNCHANGED eof

\* SIGINT delivered to the session process while main runs; inside the
\* with statement the exception passes through Proxy.__exit__
interrupt ==
    /\ pc \notin { "exit", "execed" }
    /\ raise(KeyboardInterrupt)
    /\ IF pc = "run" THEN relayExit("Cancelled") ELSE UNCHANGED relayEnd
    /\ UNCHANGED << argVars, consoles, entry, menuVars, validated, events,
                    known_hosts, daemonVars, waitStatus, timeout, socket >>
    /\ UNCHANGED << envVars, relayCfg, relayIo, eof >>

Next ==
    \/ proxyParseArgs
    \/ validations
    \/ doAccept
    \/ proxyHelp
    \/ doInfo
    \/ doList
    \/ doConnect
    \/ selectConsole
    \/ doConnectKnownHosts
    \/ simpleDaemonFork
    \/ simpleDaemonChild
    \/ simpleDaemonWait
    \/ execv
    \/ taskSleep
    \/ delayedUnlink
    \/ hostParseArgs
    \/ hostDoConnect
    \/ hostRelay
    \/ relayTick
    \/ relayTimeout
    \/ relayRead
    \/ relayWrite
    \/ interrupt

Spec == Init /\ [][Next]_vars

(***************************************************************************)
(* Properties.                                                             *)
(***************************************************************************)
ProxyConnect ==
    hop = "proxy" /\ userargs.command = "connect" /\ consoles.valid

HasCriteria == userargs.vm_id # "" \/ userargs.vm_name # ""

\* the entries the criterion in force matches: the id, or the name when no
\* id is given
CriteriaMatches ==
    LET cs == consoles.consoles
    IN  IF userargs.vm_id # ""
        THEN { k \in 1..Len(cs) : cs[k].vmid = userargs.vm_id }
        ELSE { k \in 1..Len(cs) : cs[k].vm = userargs.vm_name }

NoPrompt ==
    /\ pc # "selectConsole"
    /\ menuWrites = 0
    /\ stdinLines = << >>
    /\ ~stdinEof

\* the session ended before doConnect reached the selection
StoppedBeforeSelect ==
    /\ pc = "exit"
    /\ entry = NoEntry
    /\ exc \in { KeyboardInterrupt, UserVisibleRuntimeError("No pty support") }

NotProvisioned ==
    /\ entry = NoEntry
    /\ known_hosts = "none"
    /\ childPc = "none"
    /\ taskPc = "none"
    /\ pc \notin { "provision", "simpleDaemon", "waitpid", "execv", "execed" }
    /\ \A k \in 1..Len(events) :
         events[k] \notin { "select", "mkstemp", "write", "fork", "exec" }

Cancelled == exc.type \in { "UserExit", "KeyboardInterrupt" }

\* C1: every run of either shell exits with status 0 on clean completion,
\* user cancellation ('exit' at the prompt, or an interrupt) included, and
\* with status 1 on any failure.
C1_ExitStatus ==
    pc = "exit" =>
        IF exc = NoExc \/ Cancelled THEN status = { 0 } ELSE status = { 1 }

\* C2: a criterion (vm id, or vm name when no id is given) that matches
\* exactly one entry selects that entry without prompting; one that matches
\* no entry fails with the console-unavailable error and nothing is
\* provisioned.
C2_SelectByCriteria ==
    (ProxyConnect /\ HasCriteria) =>
        LET cs == consoles.consoles
            m == CriteriaMatches
            unavailable ==
                IF userargs.vm_id # ""
                THEN UserVisibleRuntimeError("VM with id is unavailable")
                ELSE UserVisibleRuntimeError("VM with name is unavailable")
        IN  /\ Cardinality(m) = 1 =>
                /\ NoPrompt
                /\ pc # "userargs_func" =>
                     \/ StoppedBeforeSelect
                     \/ \E k \in m : entry = cs[k]
            /\ m = {} =>
                /\ NotProvisioned
                /\ NoPrompt
                /\ pc # "userargs_func" =>
                     \/ StoppedBeforeSelect
                     \/ pc = "exit" /\ exc = unavailable /\ status = { 1 }

C2_Witness ==
    /\ ProxyConnect
    /\ HasCriteria
    /\ Len(consoles.consoles) >= 2
    /\ CriteriaMatches = { 2 }
    /\ entry = consoles.consoles[2]
    /\ pc = "provision"

\* C3: with no criteria, an empty list fails with the no-consoles error, a
\* list of one entry selects it without reading input or writing a menu,
\* and the menu is entered only for a list of two or more entries.
C3_NoCriteria ==
    /\ (ProxyConnect /\ ~HasCriteria) =>
        LET cs == consoles.consoles
        IN  /\ Len(cs) = 0 =>
                /\ NotProvisioned
                /\ NoPrompt
                /\ pc # "userargs_func" =>
                     \/ StoppedBeforeSelect
                     \/ /\ pc = "exit"
                        /\ exc = UserVisibleRuntimeError("No available running VMs")
                        /\ status = { 1 }
            /\ Len(cs) = 1 =>
                /\ NoPrompt
                /\ pc # "userargs_func" => StoppedBeforeSelect \/ entry = cs[1]
    /\ (pc = "selectConsole" \/ menuWrites > 0 \/ stdinLines # << >> \/ stdinEof) =>
        /\ ProxyConnect
        /\ ~HasCriteria
        /\ Len(consoles.consoles) >= 2

C3_Witness ==
    /\ ProxyConnect
    /\ ~HasCriteria
    /\ Len(consoles.consoles) = 1
    /\ entry = consoles.consoles[1]
    /\ NoPrompt
    /\ pc = "provision"

\* What each line of StdinLines asks for, read as the prompt describes it:
\* a number, the word exit, or neither.
LineMeaning(l) ==
    CASE l = << "0", "\n" >> -> [kind |-> "int", val |-> 0]
      [] l = << "1", "\n" >> -> [kind |-> "int", val |-> 1]
      [] l = << "2", "\n" >> -> [kind |-> "int", val |-> 2]
      [] l = << "3", "\n" >> -> [kind |-> "int", val |-> 3]
      [] l = << "-", "1", "\n" >> -> [kind |-> "int", val |-> 0 - 1]
      [] l = << " ", "+", "1", "\r", "\n" >> -> [kind |-> "int", val |-> 1]
      [] l = << "e", "x", "i", "t", "\n" >> -> [kind |-> "exit", val |-> 0]
      [] OTHER -> [kind |-> "other", val |-> 0]

\* the line ends the menu over n consoles
Decides(l, n) ==
    \/ LineMeaning(l).kind = "exit"
    \/ /\ LineMeaning(l).kind = "int"
       /\ 0 <= LineMeaning(l).val
       /\ LineMeaning(l).val < n

\* C4: the menu over n >= 2 consoles is decided by the first line that is an
\* integer in [0, n), 'exit' or end-of-input: the integer i returns
\* consoles[i], 'exit' raises UserExit, end-of-input raises a failure; every
\* earlier line is rejected with 'Invalid selection' and the menu is written
\* again.  No entry outside the list is returned and the loop ends no other
\* way (an interrupt of the process aside).
C4_MenuOutcome ==
    (pc = "selectConsole" \/ menuWrites > 0) =>
        LET cs == consoles.consoles
            n == Len(cs)
            h == stdinLines
            decided == h # << >> /\ Decides(h[Len(h)], n)
        IN  /\ n >= 2
            /\ \A k \in 1..(Len(h) - 1) : ~Decides(h[k], n)
            /\ menuWrites = Len(h) + (IF stdinEof THEN 1 ELSE 0)
            /\ entry # NoEntry => \E k \in 1..n : entry = cs[k]
            /\ stdinEof =>
                /\ \A k \in 1..Len(h) : ~Decides(h[k], n)
                /\ invalidMsgs = Len(h)
                /\ entry = NoEntry
                /\ pc = "exit"
                /\ exc = UserVisibleRuntimeError("EOF")
                /\ status = { 1 }
            /\ (~stdinEof /\ decided /\ LineMeaning(h[Len(h)]).kind = "exit") =>
                /\ invalidMsgs = Len(h) - 1
                /\ entry = NoEntry
                /\ pc = "exit"
                /\ exc = UserExit
            /\ (~stdinEof /\ decided /\ LineMeaning(h[Len(h)]).kind = "int") =>
                /\ invalidMsgs = Len(h) - 1
                /\ entry = cs[LineMeaning(h[Len(h)]).val + 1]
                /\ pc # "selectConsole"
                /\ exc # UserExit
            /\ (~stdinEof /\ ~decided) =>
                /\ invalidMsgs = Len(h)
                /\ entry = NoEntry
                /\ pc = "selectConsole" \/ (pc = "exit" /\ exc = KeyboardInterrupt)

C4_Witness ==
    /\ stdinLines = << << "-", "1", "\n" >>, << "1", "\n" >> >>
    /\ Len(consoles.consoles) >= 2
    /\ invalidMsgs = 1
    /\ menuWrites = 2
    /\ entry = consoles.consoles[2]
    /\ pc = "provision"

\* C5: when simpleDaemon returns to doConnect the known_hosts file exists,
\* and no process but the detached task ever calls unlink on it (so it is
\* deleted at most once, and only by the task after its sleep).
C5_AnchorLifetime ==
    /\ [][(pc = "waitpid" /\ pc' = "execv") => known_hosts' = "written"]_vars
    /\ [][unlinks' \subseteq { "task" }]_vars
    /\ [][known_hosts = "unlinked" => known_hosts' = "unlinked"]_vars

\* C6: a session that created the temporary file never ends, on any exit
\* path, without a cleanup task for it either spawned or being spawned.
C6_CleanupScheduled ==
    (pc \in { "exit", "execed" } /\ known_hosts # "none") =>
        (taskPc # "none" \/ childPc = "forked")

\* the detached task ended with os.unlink having raised
TaskFailed == taskPc = "exited" /\ known_hosts # "unlinked"

ExitedOk == [exited |-> TRUE, code |-> 0]

\* C7: the session process observes only the exit of the intermediate
\* child: what waitpid gave it is that child's status, it goes on to the
\* next hop exactly when that status is a normal exit 0, and it reports the
\* daemon failure only when it is not, whatever the detached task did.
C7_TaskFailureNotEscalated ==
    /\ waitStatus # {} => waitStatus = childStatus
    /\ exc = Exception("Daemon not exited properly") =>
        (childStatus # {} /\ ExitedOk \notin childStatus)
    /\ pc \in { "execv", "execed" } => childStatus = { ExitedOk }
    /\ (waitStatus = { ExitedOk } /\ pc = "exit") =>
        exc \in { KeyboardInterrupt, Exception("OSError execv") }

C7_Witness ==
    /\ TaskFailed
    /\ taskStatus = { 1 }
    /\ waitStatus = { ExitedOk }
    /\ pc = "execed"

\* C8: on both hops validation runs before discovery, the known_hosts file,
\* the cleanup daemon, the next hop and the console socket; when it fails
\* none of them ever happens and the session ends in failure.
C8_ValidationFirst ==
    /\ events # << >> => events[1] = "validate"
    /\ (\E k \in 1..Len(events) : events[k] # "validate") => validated = "ok"
    /\ ( \/ consoles.valid
         \/ entry # NoEntry
         \/ known_hosts # "none"
         \/ childPc # "none"
         \/ taskPc # "none"
         \/ socket # << >>
         \/ pc \in { "args_func", "userargs_func", "selectConsole",
                     "provision", "simpleDaemon", "waitpid", "execv",
                     "execed", "relay", "run" } ) => validated = "ok"
    /\ validated = "failed" =>
        /\ pc = "exit"
        /\ status = { 1 }
        /\ exc = Exception("Must run under user")
        /\ events = << "validate" >>

C8_Witness ==
    /\ validated = "failed"
    /\ pc = "exit"
    /\ status = { 1 }
    /\ events = << "validate" >>

ProxyStages ==
    << "validate", "discover", "select", "mkstemp", "write", "fork", "exec" >>

HostStages == << "validate", "access", "attach" >>

IsPrefix(a, b) == Len(a) <= Len(b) /\ SubSeq(b, 1, Len(a)) = a

\* C9: the proxy session's side effects happen only in the order validate,
\* discover, select, write known_hosts, spawn the cleanup daemon, execute
\* the next hop, each at most once; the file is never written before an
\* entry is selected, the daemon never spawned before the file is written,
\* the next hop never executed before the cleanup task exists.  The host
\* hop goes from validation to the relay with none of the proxy's stages.
C9_StageOrder ==
    /\ hop = "proxy" => IsPrefix(events, ProxyStages)
    /\ hop = "host" =>
        /\ IsPrefix(events, HostStages)
        /\ ~consoles.valid
        /\ NotProvisioned
        /\ NoPrompt
    /\ known_hosts # "none" => entry # NoEntry
    /\ (childPc # "none" \/ taskPc # "none") =>
        known_hosts \in { "written", "unlinked" }
    /\ pc = "execed" => taskPc # "none"

C9_Witness ==
    /\ hop = "proxy"
    /\ pc = "execed"
    /\ events = ProxyStages

\* The path components between the "/" of p.
RECURSIVE Split(_)
Split(p) ==
    IF p = << >> THEN << << >> >>
    ELSE LET rest == Split(Tail(p))
         IN  IF Head(p) = "/" THEN << << >> >> \o rest
             ELSE << << Head(p) >> \o Head(rest) >> \o Tail(rest)

\* The directories walked from the root: "" and "." stay, ".." goes up.
RECURSIVE Walk(_, _)
Walk(comps, stack) ==
    IF comps = << >> THEN stack
    ELSE LET c == Head(comps)
         IN  IF c = << >> \/ c = << "." >> THEN Walk(Tail(comps), stack)
             ELSE IF c = << ".", "." >>
             THEN Walk(Tail(comps),
                       IF stack = << >> THEN stack
                       ELSE SubSeq(stack, 1, Len(stack) - 1))
             ELSE Walk(Tail(comps), Append(stack, c))

\* what the path p denotes
Resolve(p) == Walk(Split(p), << >>)

\* p denotes an entry of the directory dir
DirectlyInside(p, dir) ==
    LET r == Resolve(p)
        d == Resolve(dir)
    IN  Len(r) = Len(d) + 1 /\ SubSeq(r, 1, Len(d)) = d

\* C10: every console name the host hop accepts gives a socket path that
\* denotes an entry directly inside the console directory, never the
\* directory itself or a place outside it.
C10_SocketInsideConsoleDir ==
    (hop = "host" /\ socket # << >>) => DirectlyInside(socket, consoledir)

HostConnect == hop = "host" /\ args.command = "connect"

HasSeparator(c) == \E k \in 1..Len(c) : c[k] = "/"

Happened(e) == \E k \in 1..Len(events) : events[k] = e

\* C11: on the host hop a console name that contains a path separator is
\* refused with the user-visible 'Invalid console name' error: no socket
\* path is built, no socket is tested or attached, and once the pty check
\* has passed the run ends with exactly that error.
C11_SeparatorRejected ==
    (HostConnect /\ HasSeparator(args.console)) =>
        /\ socket = << >>
        /\ hasAccess = "unknown"
        /\ pc \notin { "relay", "run" }
        /\ \A X \in Endpoints : endpoints[X] = "none"
        /\ ~Happened("access") /\ ~Happened("attach")
        /\ hasPty = "yes" =>
             /\ pc = "exit"
             /\ exc = UserVisibleRuntimeError("Invalid console name")
             /\ stderrMsg = "Invalid console name"
             /\ status = { 1 }

C11_Witness ==
    /\ HostConnect
    /\ args.console = << "a", "/", "a" >>
    /\ hasPty = "yes"
    /\ exc = UserVisibleRuntimeError("Invalid console name")

\* the messages the two shells raise as UserVisibleRuntimeError
UserVisibleMessages ==
    { "No pty support", "VM with id is unavailable",
      "VM with name is unavailable", "No available running VMs",
      "EOF", "Invalid console name", "Console is not available" }

\* C12: a run that ends in an internal error writes the one fixed text
\* 'Internal error' to the remote party whatever the failure was; only a
\* user-visible error writes its own message.
C12_GenericInternalError ==
    pc = "exit" =>
        /\ exc.type = "Exception" => stderrMsg = "Internal error"
        /\ exc.type = "UserVisibleRuntimeError" =>
             stderrMsg = exc.msg /\ exc.msg \in UserVisibleMessages
        /\ stderrMsg \notin UserVisibleMessages \cup { "", "Traceback" } =>
             stderrMsg = "Internal error"

C12_Witness ==
    /\ hop = "proxy"
    /\ pc = "exit"
    /\ exc = Exception("IOError write")
    /\ stderrMsg = "Internal error"

\* C13: a cancelled run (the 'exit' sentinel at the prompt, or an interrupt
\* at any stage on either hop) writes nothing to the remote party, logs no
\* error and provisions nothing afterwards.
C13_CancelSilent ==
    (pc = "exit" /\ Cancelled) =>
        /\ stderrMsg = ""
        /\ logErrors = 0
        /\ exc = UserExit => NotProvisioned

DiscoveryFailed ==
    \/ discovery.rc # 0
    \/ discovery.stdout \in { "", "notjson", "falsy", "badshape" }

\* C14: when the discovery command exits non-zero, or its output is empty,
\* undecodable or of the wrong shape, the session ends at once with the
\* generic internal error: discovery ran once, no user command ran, nothing
\* was selected, prompted or provisioned.
C14_DiscoveryFailureFatal ==
    (hop = "proxy" /\ DiscoveryFailed) =>
        /\ pc = "exit"
        /\ exc.type = "Exception"
        /\ stderrMsg = "Internal error"
        /\ status = { 1 }
        /\ ~consoles.valid
        /\ events = << "validate", "discover" >>
        /\ NoPrompt
        /\ NotProvisioned
        /\ hasPty = "unknown"

C14_Witness ==
    /\ hop = "proxy"
    /\ discovery = [rc |-> 0, stdout |-> "falsy"]
    /\ exc = Exception("Console list malformed output")
    /\ pc = "exit"

\* C15: with both a vm id and a vm name given only the id is used (an id
\* that matches nothing fails with 'VM with id is unavailable' even when
\* the name matches an entry), and a criterion is applied before the rules
\* for the empty list and for the list of one entry.
C15_IdBeforeName ==
    (ProxyConnect /\ HasCriteria) =>
        LET cs == consoles.consoles
            byId == { k \in 1..Len(cs) : cs[k].vmid = userargs.vm_id }
        IN  /\ NoPrompt
            /\ exc # UserVisibleRuntimeError("No available running VMs")
            /\ (Len(cs) = 1 /\ CriteriaMatches = {}) => entry = NoEntry
            /\ (userargs.vm_id # "" /\ userargs.vm_name # "") =>
                 /\ entry # NoEntry => entry.vmid = userargs.vm_id
                 /\ exc # UserVisibleRuntimeError(
                              "VM with name is unavailable")
                 /\ byId = {} =>
                      /\ NotProvisioned
                      /\ pc # "userargs_func" =>
                           \/ StoppedBeforeSelect
                           \/ /\ pc = "exit"
                              /\ exc = UserVisibleRuntimeError(
                                           "VM with id is unavailable")

C15_Witness ==
    /\ ProxyConnect
    /\ userargs.vm_id = "z"
    /\ userargs.vm_name = "x"
    /\ \E k \in 1..Len(consoles.consoles) : consoles.consoles[k].vm = "x"
    /\ pc = "exit"
    /\ exc = UserVisibleRuntimeError("VM with id is unavailable")

\* C16: a vm-name criterion that matches more than one entry of the console
\* list ends the run with a user-visible error, and no entry is chosen or
\* provisioned.
C16_AmbiguousRejected ==
    ( /\ ProxyConnect
      /\ userargs.vm_id = ""
      /\ userargs.vm_name # ""
      /\ Cardinality(CriteriaMatches) > 1 ) =>
        /\ NotProvisioned
        /\ pc = "exit" =>
             StoppedBeforeSelect \/ exc.type = "UserVisibleRuntimeError"

\* C17: on the host hop the relay is entered only after the pty check, the
\* console name check and the os.access check of the socket have passed, in
\* that order; a socket that fails os.access ends the run with 'Console is
\* not available' and the relay is not entered.
C17_RelayAfterChecks ==
    hop = "host" =>
        /\ (pc \in { "relay", "run" } \/ Happened("attach")
                \/ \E X \in Endpoints : endpoints[X] # "none") =>
             /\ hasPty = "yes"
             /\ ValidConsoleName(args.console)
             /\ hasAccess = "yes"
             /\ socket = join(consoledir, args.console)
        /\ hasPty = "no" =>
             /\ pc = "exit"
             /\ exc = UserVisibleRuntimeError("No pty support")
             /\ hasAccess = "unknown"
        /\ hasAccess # "unknown" =>
             hasPty = "yes" /\ ValidConsoleName(args.console)
        /\ hasAccess = "no" =>
             /\ pc = "exit"
             /\ exc = UserVisibleRuntimeError("Console is not available")
             /\ stderrMsg = "Console is not available"
             /\ ~Happened("attach")
             /\ \A X \in Endpoints : endpoints[X] = "none"

C17_Witness ==
    /\ hop = "host"
    /\ hasAccess = "no"
    /\ pc = "exit"
    /\ exc = UserVisibleRuntimeError("Console is not available")

\* C18: the detached task exits with a status that tells a deleted file
\* (0) from a failed deletion (non-zero), and the session process never
\* reads that status.
C18_TaskStatusTellsOutcome ==
    /\ taskPc = "exited" =>
         (taskStatus = { 0 } <=> known_hosts = "unlinked")
    /\ waitStatus # {} => waitStatus = childStatus

\* the bytes held for endpoint X
Held(X) == IF pending.to = X THEN pending.data ELSE << >>

\* C19: in each direction the bytes delivered to an endpoint are a prefix of
\* the bytes the other endpoint sent, in the same order; every byte read is
\* delivered or held for the next write, and whenever the relay waits again,
\* or ends by end of stream or timeout, every byte read has been delivered.
C19_ByteExact ==
    hop = "host" =>
        /\ \A X \in Endpoints :
             /\ IsPrefix(out[Other(X)], Stream(X))
             /\ out[Other(X)] \o Held(Other(X)) = SubSeq(Stream(X), 1, rd[X])
             /\ (pc = "run" /\ pending = NoPending) =>
                  Len(out[Other(X)]) = rd[X]
             /\ outcome \in { "ClosedByPeerA", "ClosedByPeerB", "IdleTimeout" }
                  => Len(out[Other(X)]) = rd[X]
        /\ Len(pending.data) <= bufsize
        /\ pending # NoPending => pending.to \in Endpoints

C19_Witness ==
    /\ bufsize = 1
    /\ outcome = "ClosedByPeerA"
    /\ out["B"] = Stream("A")
    /\ out["A"] = Stream("B")

\* C20: the relay ends with IdleTimeout only when a timeout is set and no
\* byte was read or written for that long; every read or write sets the
\* idle clock back to zero; once the clock reaches the timeout nothing is
\* relayed any more; with a timeout of 0 the relay never ends with
\* IdleTimeout.
C20_IdleTimeout ==
    /\ [](outcome = "IdleTimeout" =>
            /\ idleTimeout > 0
            /\ quiet >= idleTimeout
            /\ pc = "exit" /\ exc = NoExc /\ status = { 0 })
    /\ [](idleTimeout = 0 => outcome # "IdleTimeout")
    /\ [][(rd' # rd \/ out' # out) => idle' = 0 /\ quiet' = 0]_vars
    /\ [][(pc = "run" /\ idleTimeout > 0 /\ idle >= idleTimeout) =>
            outcome' \in { "IdleTimeout", "Cancelled" }]_vars

C20_Witness ==
    /\ outcome = "IdleTimeout"
    /\ idleTimeout = MaxIdle
    /\ rd["A"] > 0
    /\ out["B"] # << >>

EndOfStream == { "ClosedByPeerA", "ClosedByPeerB" }

\* C21: a read of no bytes from endpoint X ends the relay at once with the
\* outcome ClosedByPeer for X, whatever the other endpoint still has to
\* send: the held chunk is empty, both endpoints are closed together and,
\* once the relay has ended, nothing more is read or delivered.
C21_EndOfStreamEndsSession ==
    /\ [](eof # {} =>
            /\ \E X \in Endpoints : eof = { X } /\ outcome = "ClosedByPeer" \o X
            /\ pc = "exit" /\ exc = NoExc /\ status = { 0 }
            /\ pending = NoPending
            /\ \A X \in Endpoints : endpoints[X] = "closed")
    /\ [](outcome \in EndOfStream => eof # {})
    /\ [][outcome # "" => UNCHANGED << rd, out, pending, outcome, eof >>]_vars

C21_Witness ==
    /\ eof = { "A" }
    /\ outcome = "ClosedByPeerA"
    /\ out["B"] # << >>
    /\ rd["B"] < MaxStream
    /\ endpoints["B"] = "closed"

\* C22: however the relay ends (end of stream, idle timeout, read or write
\* error, interrupt) both endpoints are closed and the terminal mode is
\* restored; an endpoint is open and the terminal raw only while the relay
\* runs, never in a finished session.
C22_RelayCleanup ==
    hop = "host" =>
        /\ (outcome # "" \/ (pc = "exit" /\ tty # "cooked")) =>
             /\ pc = "exit"
             /\ outcome # ""
             /\ \A X \in Endpoints : endpoints[X] = "closed"
             /\ tty = "restored"
        /\ (tty = "raw" \/ \E X \in Endpoints : endpoints[X] = "open") =>
             /\ pc = "run"
             /\ tty = "raw"
             /\ \A X \in Endpoints : endpoints[X] = "open"
        /\ pc = "exit" =>
             /\ tty # "raw"
             /\ \A X \in Endpoints : endpoints[X] # "open"
        /\ (pc = "exit" /\ outcome = "") =>
             \A X \in Endpoints : endpoints[X] = "none"

C22_Witness ==
    /\ outcome = "Cancelled"
    /\ exc = KeyboardInterrupt
    /\ pending # NoPending
    /\ tty = "restored"
    /\ \A X \in Endpoints : endpoints[X] = "closed"

\* C23: when the session process executes the next-hop command the
\* known_hosts file named in it still exists: the detached task's unlink
\* never comes between the spawn of the task and the exec.
C23_AnchorAtExec ==
    [][(pc = "execv" /\ pc' = "execed") => known_hosts = "written"]_vars

\* C24: simpleDaemon returns as soon as the intermediate child has exited,
\* whether or not the detached task still sleeps; it returns normally when
\* that child exited with status 0 and raises 'Daemon not exited properly'
\* otherwise, and after that error the next hop is never executed and the
\* session ends in failure.
C24_DaemonReturn ==
    /\ []((pc = "waitpid" /\ childPc = "exited") => ENABLED simpleDaemonWait)
    /\ [][waitStatus' # waitStatus =>
            /\ pc = "waitpid" /\ childPc = "exited"
            /\ UNCHANGED << taskPc, taskStatus, elapsed, known_hosts >>
            /\ IF childStatus = { ExitedOk }
               THEN pc' = "execv" /\ exc' = NoExc
               ELSE /\ pc' = "exit"
                    /\ exc' = Exception("Daemon not exited properly")]_vars
    /\ [](exc = Exception("Daemon not exited properly") =>
            /\ pc = "exit"
            /\ status = { 1 }
            /\ stderrMsg = "Internal error"
            /\ ~Happened("exec")
            /\ waitStatus # {} /\ waitStatus # { ExitedOk })

C24_Witness ==
    /\ pc = "execv"
    /\ waitStatus = { ExitedOk }
    /\ taskPc = "sleep"
    /\ elapsed < timeout
    /\ known_hosts = "written"

====
